---- MODULE Spec2Model ----
(***************************************************************************)
(* Model of src/src/main.cpp: ESP32 firmware that samples a DHT22 sensor   *)
(* every DHT_MEASURETIME milliseconds in loop() and serves the latest      *)
(* sample from ESPAsyncWebServer handlers.                                 *)
(*                                                                         *)
(* Tasks.  setup() and loop() run in the Arduino loop task.  The HTTP      *)
(* handlers run in the AsyncTCP task and tickLED() in the timer task, so   *)
(* both interleave with loop() at statement granularity: every statement   *)
(* of loop() that touches a global is one action.                          *)
(*                                                                         *)
(* Numbers.  unsigned long is 32 bits wide; a value is the pair <<hi, lo>> *)
(* of its 16-bit halves, and + and - are computed limb by limb with carry  *)
(* and borrow.  Temperature and humidity are in tenths (the resolution of  *)
(* the DHT22), NaN is a number outside every range.  fSndSpd is in         *)
(* 1e-5 m/s and fHtIdx in 1e-2 degrees C.                                  *)
(***************************************************************************)
EXTENDS Integers, Sequences, FiniteSets, TLC

\* ------------------------------------------------------------------ bounds
MaxTicks == 2
MaxRequests == 1

\* cycles that are told apart; a run of MaxTicks clock advances has fewer
CycleCap == MaxTicks + 1

\* --------------------------------------------------------------- constants
DHT_MEASURETIME == 30000
LED_ON == 1
LED_OFF == 0
Limb == 65536

NaN == -99999999
NA == "N/A"

\* ------------------------------------------------- 32-bit unsigned numbers
ToU32(n) == <<n \div Limb, n % Limb>>

Add32(a, b) ==
  LET s == a[2] + b[2]
  IN  <<(a[1] + b[1] + (s \div Limb)) % Limb, s % Limb>>

Sub32NoWrap(a, b) ==
  IF a[1] < b[1] \/ (a[1] = b[1] /\ a[2] < b[2])
  THEN <<b[1] - a[1] - (IF b[2] < a[2] THEN 1 ELSE 0), (b[2] - a[2]) % Limb>>
  ELSE <<a[1] - b[1] - (IF a[2] < b[2] THEN 1 ELSE 0), (a[2] - b[2]) % Limb>>

\* a - b on unsigned long: modulo 2^32
Sub32(a, b) ==
  LET borrow == IF a[2] < b[2] THEN 1 ELSE 0
  IN  <<(a[1] - b[1] - borrow) % Limb, (a[2] - b[2]) % Limb>>

Gt32(a, b) == a[1] > b[1] \/ (a[1] = b[1] /\ a[2] > b[2])

Ge32(a, b) == a[1] > b[1] \/ (a[1] = b[1] /\ a[2] >= b[2])

ElapsedAtLeast(cur, last) == Ge32(Sub32(cur, last), ToU32(DHT_MEASURETIME))

ElapsedExceedsAdd(cur, last) == Gt32(cur, Add32(last, ToU32(DHT_MEASURETIME)))

\* ulTime - ulMeasureTime > DHT_MEASURETIME
ElapsedExceeds(cur, last) == Gt32(Sub32(cur, last), ToU32(DHT_MEASURETIME))

\* an unbounded natural hi * 2^16 + lo (hi is not reduced), for real time
AddBig(a, b) ==
  LET s == a[2] + b[2]
  IN  <<a[1] + b[1] + (s \div Limb), s % Limb>>

\* ------------------------------------------------------- environment inputs
\* amounts by which millis() advances between two observations
Deltas == { ToU32(16), ToU32(29984), ToU32(30001), <<65535, 65530>> }

\* what the sensor can return: NaN on a failed read, else tenths
SensorTemps == { NaN, 225 }
SensorHums == { NaN, 550 }

\* what clientNTP.getFormattedTime() can return
FormattedTimes == { "12:00:31", "12:01:02" }

\* ---------------------------------------------------------- derived values
\* DHT::computeHeatIndex(t, h, false): NaN in, NaN out; below 79 F the
\* Steadman average 0.5 * (T + 61 + (T - 68) * 1.2 + H * 0.094) in Fahrenheit,
\* converted back with (hi - 32) * 0.55555.  The sensor values above stay
\* below the 79 F threshold of the regression branch.
computeHeatIndex(t, h) ==
  IF t = NaN \/ h = NaN THEN NaN
  ELSE LET hiF4 == 1980 * t + 249000 + 47 * h
       IN  (((hiF4 - 320000) \div 100) * 55555) \div 100000

SoundSpeedHumOptional(t, h) ==
  IF t = NaN THEN NaN
  ELSE 33140000 + 6060 * t + 124 * (IF h = NaN THEN 0 ELSE h)

\* 331.4 + (0.606 * fTmp) + (0.0124 * fHum)
SoundSpeed(t, h) ==
  IF t = NaN \/ h = NaN THEN NaN
  ELSE 33140000 + 6060 * t + 124 * h

\* isnan(x)
isnan(x) == x = NaN

\* String(float): two decimals
Digits2(n) == IF n < 10 THEN "0" \o ToString(n) ELSE ToString(n)

FloatString(x) ==
  IF x = NaN THEN "nan"
  ELSE LET a == IF x < 0 THEN -x ELSE x
       IN  (IF x < 0 THEN "-" ELSE "") \o ToString(a \div 10) \o "."
             \o Digits2((a % 10) * 10)

\* ------------------------------------------------------------------- state
VARIABLES
  pc,            \* statement the loop task is about to execute (line number)
  bRunServer,    \* result of wm.autoConnect()
  ledPin,        \* level of STATUS_LED_PIN
  tickerMs,      \* period of ledTicker in ms, 0 when detached
  routesOn,      \* the routes are registered
  serverOn,      \* oWebServer.begin() was called
  fTmp, fHum, fHtIdx, fSndSpd, sMeasureTime,
  ulTime, ulMeasureTime,
  millisNow,     \* the value millis() returns now
  cycleLog,      \* statements loop() executed in the latest cycle, in order
  hpc,           \* handler task: "idle", "run", "strT", "strH", "sent"
  hroute,        \* route of the request being served
  htodo,         \* placeholders still to be produced
  resp,          \* placeholder -> text produced for it
  respGen,       \* placeholder -> acquisition the text was read from
  nCycle,        \* number of acquisition cycles started, up to CycleCap
  gen,           \* stored field -> acquisition that wrote it (0: startup)
  acq,           \* what the sensor and the clock returned in the last cycle
  sinceMeasure,  \* real ms between the polls that set ulMeasureTime and ulTime
  sincePoll,     \* real ms since the poll that set ulTime
  nTicks, nReqs

storeVars == <<fTmp, fHum, fHtIdx, fSndSpd, sMeasureTime>>
schedVars == <<ulTime, ulMeasureTime>>
ioVars == <<ledPin, tickerMs, routesOn, serverOn>>
handlerVars == <<hpc, hroute, htodo, resp, respGen, nReqs>>
ghostVars == <<nCycle, gen, acq, sinceMeasure>>
clockVars == <<millisNow, sincePoll, nTicks>>

vars == <<pc, bRunServer, ledPin, tickerMs, routesOn, serverOn,
          fTmp, fHum, fHtIdx, fSndSpd, sMeasureTime, ulTime, ulMeasureTime,
          millisNow, cycleLog, hpc, hroute, htodo, resp, respGen,
          nCycle, gen, acq, sinceMeasure, sincePoll, nTicks, nReqs>>

Fields == {"tmp", "hum", "hi", "snd", "mt"}

SetupPcs == {"S97", "S135", "S139", "S147", "S150", "S153", "S157", "S174",
             "S178", "S184"}
CyclePcs == {"L198", "L199", "L200", "L203", "L204", "L206", "L208", "L210",
             "L228"}

\* Globals without initializer are zero-initialized: the floats are 0.0,
\* the bool is false, the String is empty.
Init ==
  /\ pc = "S97"
  /\ bRunServer = FALSE
  /\ ledPin = LED_OFF
  /\ tickerMs = 0
  /\ routesOn = FALSE
  /\ serverOn = FALSE
  /\ fTmp = 0 /\ fHum = 0 /\ fHtIdx = 0 /\ fSndSpd = 0
  /\ sMeasureTime = ""
  /\ ulTime = ToU32(0)
  /\ ulMeasureTime = ToU32(0)
  /\ millisNow = ToU32(0)
  /\ cycleLog = <<>>
  /\ hpc = "idle" /\ hroute = "" /\ htodo = {}
  /\ resp = <<>> /\ respGen = <<>>
  /\ nCycle = 0
  /\ gen = [f \in Fields |-> 0]
  /\ acq = [t |-> 0, h |-> 0, ts |-> ""]
  /\ sinceMeasure = ToU32(0)
  /\ sincePoll = ToU32(0)
  /\ nTicks = 0 /\ nReqs = 0

\* ------------------------------------------------------------------ setup()
\* ledTicker.attach(0.6, tickLED)
SetupAttachTicker ==
  /\ pc = "S97"
  /\ pc' = "S135"
  /\ tickerMs' = 600
  /\ UNCHANGED <<bRunServer, ledPin, routesOn, serverOn, storeVars, schedVars,
                 cycleLog, handlerVars, ghostVars, clockVars>>

\* WiFiManager calls the AP callback when it enters the config portal
configModeCallback ==
  /\ pc = "S135"
  /\ tickerMs # 200
  /\ tickerMs' = 200
  /\ UNCHANGED <<pc, bRunServer, ledPin, routesOn, serverOn, storeVars,
                 schedVars, cycleLog, handlerVars, ghostVars, clockVars>>

\* bRunServer = wm.autoConnect()
SetupAutoConnect ==
  /\ pc = "S135"
  /\ \E ok \in BOOLEAN : bRunServer' = ok
  /\ pc' = "S139"
  /\ UNCHANGED <<ioVars, storeVars, schedVars, cycleLog, handlerVars, ghostVars,
                 clockVars>>

SetupTestConnectedAlways ==
  /\ pc = "S139"
  /\ pc' = "S147"
  /\ UNCHANGED <<bRunServer, ioVars, storeVars, schedVars, cycleLog,
                 handlerVars, ghostVars, clockVars>>

\* if (!bRunServer) { ... } else { ... }
SetupTestConnected ==
  /\ pc = "S139"
  /\ pc' = IF bRunServer THEN "S147" ELSE "L193"
  /\ UNCHANGED <<bRunServer, ioVars, storeVars, schedVars, cycleLog, handlerVars,
                 ghostVars, clockVars>>

SetupDetachTickerForgotten ==
  /\ pc = "S147"
  /\ pc' = "S150"
  /\ UNCHANGED <<bRunServer, ioVars, storeVars, schedVars, cycleLog,
                 handlerVars, ghostVars, clockVars>>

\* ledTicker.detach()
SetupDetachTicker ==
  /\ pc = "S147"
  /\ pc' = "S150"
  /\ tickerMs' = 0
  /\ UNCHANGED <<bRunServer, ledPin, routesOn, serverOn, storeVars, schedVars,
                 cycleLog, handlerVars, ghostVars, clockVars>>

\* digitalWrite(STATUS_LED_PIN, HIGH)
SetupLedOn ==
  /\ pc = "S150"
  /\ pc' = "S153"
  /\ ledPin' = LED_ON
  /\ UNCHANGED <<bRunServer, tickerMs, routesOn, serverOn, storeVars,
                 schedVars, cycleLog, handlerVars, ghostVars, clockVars>>

\* clientNTP.begin(); clientNTP.update()
SetupNtp ==
  /\ pc = "S153"
  /\ pc' = "S157"
  /\ UNCHANGED <<bRunServer, ioVars, storeVars, schedVars, cycleLog, handlerVars,
                 ghostVars, clockVars>>

\* oWebServer.on(...) for the five routes
SetupRoutes ==
  /\ pc = "S157"
  /\ pc' = "S174"
  /\ routesOn' = TRUE
  /\ UNCHANGED <<bRunServer, ledPin, tickerMs, serverOn, storeVars, schedVars,
                 cycleLog, handlerVars, ghostVars, clockVars>>

\* oWebServer.begin()
SetupServerBegin ==
  /\ pc = "S174"
  /\ pc' = "S178"
  /\ serverOn' = TRUE
  /\ UNCHANGED <<bRunServer, ledPin, tickerMs, routesOn, storeVars, schedVars,
                 cycleLog, handlerVars, ghostVars, clockVars>>

\* Serial.println(clientNTP.getFormattedTime()) and the address
SetupPrintReady ==
  /\ pc = "S178"
  /\ pc' = "S184"
  /\ UNCHANGED <<bRunServer, ioVars, storeVars, schedVars, cycleLog, handlerVars,
                 ghostVars, clockVars>>

\* digitalWrite(STATUS_LED_PIN, LOW)
SetupLedOff ==
  /\ pc = "S184"
  /\ pc' = "L193"
  /\ ledPin' = LED_OFF
  /\ UNCHANGED <<bRunServer, tickerMs, routesOn, serverOn, storeVars,
                 schedVars, cycleLog, handlerVars, ghostVars, clockVars>>

Setup ==
  \/ SetupAttachTicker \/ configModeCallback \/ SetupAutoConnect
  \/ SetupTestConnected \/ SetupDetachTicker \/ SetupLedOn \/ SetupNtp
  \/ SetupRoutes \/ SetupServerBegin \/ SetupPrintReady \/ SetupLedOff

\* ------------------------------------------------------------------- loop()
\* ulTime = millis()
LoopReadMillis ==
  /\ pc = "L193"
  /\ pc' = "L195"
  /\ ulTime' = millisNow
  /\ sinceMeasure' = AddBig(sinceMeasure, sincePoll)
  /\ sincePoll' = ToU32(0)
  /\ UNCHANGED <<bRunServer, ioVars, storeVars, ulMeasureTime, millisNow,
                 nTicks, cycleLog, handlerVars, nCycle, gen, acq>>

LoopTestDueNoFlag ==
  /\ pc = "L195"
  /\ pc' = IF ElapsedExceeds(ulTime, ulMeasureTime) THEN "L198" ELSE "L231"
  /\ UNCHANGED <<bRunServer, ioVars, storeVars, schedVars, cycleLog, handlerVars,
                 ghostVars, clockVars>>

\* if (bRunServer && (ulTime - ulMeasureTime > DHT_MEASURETIME))
LoopTestDue ==
  /\ pc = "L195"
  /\ pc' = IF bRunServer /\ ElapsedExceeds(ulTime, ulMeasureTime)
           THEN "L198" ELSE "L231"
  /\ UNCHANGED <<bRunServer, ioVars, storeVars, schedVars, cycleLog, handlerVars,
                 ghostVars, clockVars>>

\* digitalWrite(LED_BUILTIN, LED_ON)
LoopLedOn ==
  /\ pc = "L198"
  /\ pc' = "L199"
  /\ ledPin' = LED_ON
  /\ nCycle' = IF nCycle < CycleCap THEN nCycle + 1 ELSE nCycle
  /\ cycleLog' = <<"ledOn">>
  /\ UNCHANGED <<bRunServer, tickerMs, routesOn, serverOn, storeVars,
                 schedVars, handlerVars, gen, acq, sinceMeasure, clockVars>>

LoopNtpUpdateSkipped ==
  /\ pc = "L199"
  /\ pc' = "L200"
  /\ UNCHANGED <<bRunServer, ioVars, storeVars, schedVars, cycleLog,
                 handlerVars, ghostVars, clockVars>>

\* clientNTP.update()
LoopNtpUpdate ==
  /\ pc = "L199"
  /\ pc' = "L200"
  /\ cycleLog' = Append(cycleLog, "update")
  /\ UNCHANGED <<bRunServer, ioVars, storeVars, schedVars, handlerVars,
                 ghostVars, clockVars>>

\* sMeasureTime = clientNTP.getFormattedTime()
LoopStoreTime ==
  /\ pc = "L200"
  /\ pc' = "L203"
  /\ \E ts \in FormattedTimes :
       /\ sMeasureTime' = ts
       /\ acq' = [acq EXCEPT !.ts = ts]
  /\ cycleLog' = Append(cycleLog, "getFormattedTime")
  /\ gen' = [gen EXCEPT !["mt"] = nCycle]
  /\ UNCHANGED <<bRunServer, ioVars, fTmp, fHum, fHtIdx, fSndSpd, schedVars,
                 handlerVars, nCycle, sinceMeasure, clockVars>>

LoopReadTemperatureRestart ==
  /\ pc = "L203"
  /\ \E t \in SensorTemps :
       /\ fTmp' = t
       /\ acq' = [acq EXCEPT !.t = t]
       /\ pc' = IF isnan(t) THEN "L198" ELSE "L204"
  /\ gen' = [gen EXCEPT !["tmp"] = nCycle]
  /\ cycleLog' = Append(cycleLog, "readTemperature")
  /\ UNCHANGED <<bRunServer, ioVars, fHum, fHtIdx, fSndSpd, sMeasureTime,
                 schedVars, handlerVars, nCycle, sinceMeasure,
                 clockVars>>

LoopReadTemperatureKeepLast ==
  /\ pc = "L203"
  /\ pc' = "L204"
  /\ \E t \in SensorTemps :
       /\ fTmp' = IF isnan(t) THEN fTmp ELSE t
       /\ acq' = [acq EXCEPT !.t = t]
  /\ gen' = [gen EXCEPT !["tmp"] = nCycle]
  /\ cycleLog' = Append(cycleLog, "readTemperature")
  /\ UNCHANGED <<bRunServer, ioVars, fHum, fHtIdx, fSndSpd, sMeasureTime,
                 schedVars, handlerVars, nCycle, sinceMeasure,
                 clockVars>>

\* fTmp = dhtSensor.readTemperature(false)
LoopReadTemperature ==
  /\ pc = "L203"
  /\ pc' = "L204"
  /\ \E t \in SensorTemps :
       /\ fTmp' = t
       /\ acq' = [acq EXCEPT !.t = t]
  /\ gen' = [gen EXCEPT !["tmp"] = nCycle]
  /\ cycleLog' = Append(cycleLog, "readTemperature")
  /\ UNCHANGED <<bRunServer, ioVars, fHum, fHtIdx, fSndSpd, sMeasureTime,
                 schedVars, handlerVars, nCycle, sinceMeasure,
                 clockVars>>

LoopReadHumidityAllOrNothing ==
  /\ pc = "L204"
  /\ pc' = "L206"
  /\ \E h \in SensorHums :
       /\ fHum' = IF isnan(fTmp) THEN NaN ELSE h
       /\ acq' = [acq EXCEPT !.h = h]
  /\ gen' = [gen EXCEPT !["hum"] = nCycle]
  /\ cycleLog' = Append(cycleLog, "readHumidity")
  /\ UNCHANGED <<bRunServer, ioVars, fTmp, fHtIdx, fSndSpd, sMeasureTime,
                 schedVars, handlerVars, nCycle, sinceMeasure,
                 clockVars>>

\* fHum = dhtSensor.readHumidity()
LoopReadHumidity ==
  /\ pc = "L204"
  /\ pc' = "L206"
  /\ \E h \in SensorHums :
       /\ fHum' = h
       /\ acq' = [acq EXCEPT !.h = h]
  /\ gen' = [gen EXCEPT !["hum"] = nCycle]
  /\ cycleLog' = Append(cycleLog, "readHumidity")
  /\ UNCHANGED <<bRunServer, ioVars, fTmp, fHtIdx, fSndSpd, sMeasureTime,
                 schedVars, handlerVars, nCycle, sinceMeasure,
                 clockVars>>

LoopHeatIndexSwapped ==
  /\ pc = "L206"
  /\ pc' = "L208"
  /\ fHtIdx' = computeHeatIndex(fHum, fTmp)
  /\ gen' = [gen EXCEPT !["hi"] = nCycle]
  /\ cycleLog' = Append(cycleLog, "computeHeatIndex")
  /\ UNCHANGED <<bRunServer, ioVars, fTmp, fHum, fSndSpd, sMeasureTime,
                 schedVars, handlerVars, nCycle, acq, sinceMeasure,
                 clockVars>>

\* fHtIdx = dhtSensor.computeHeatIndex(fTmp, fHum, false)
LoopHeatIndex ==
  /\ pc = "L206"
  /\ pc' = "L208"
  /\ fHtIdx' = computeHeatIndex(fTmp, fHum)
  /\ gen' = [gen EXCEPT !["hi"] = nCycle]
  /\ cycleLog' = Append(cycleLog, "computeHeatIndex")
  /\ UNCHANGED <<bRunServer, ioVars, fTmp, fHum, fSndSpd, sMeasureTime,
                 schedVars, handlerVars, nCycle, acq, sinceMeasure,
                 clockVars>>

\* fSndSpd = 331.4 + (0.606 * fTmp) + (0.0124 * fHum)
LoopSoundSpeed ==
  /\ pc = "L208"
  /\ pc' = "L210"
  /\ fSndSpd' = SoundSpeed(fTmp, fHum)
  /\ gen' = [gen EXCEPT !["snd"] = nCycle]
  /\ cycleLog' = Append(cycleLog, "soundSpeed")
  /\ UNCHANGED <<bRunServer, ioVars, fTmp, fHum, fHtIdx, sMeasureTime,
                 schedVars, handlerVars, nCycle, acq, sinceMeasure,
                 clockVars>>

LoopStoreMeasureTimeForgotten ==
  /\ pc = "L210"
  /\ pc' = "L228"
  /\ sinceMeasure' = ToU32(0)
  /\ cycleLog' = Append(cycleLog, "ulMeasureTime")
  /\ UNCHANGED <<bRunServer, ioVars, storeVars, schedVars, handlerVars,
                 nCycle, gen, acq, clockVars>>

\* ulMeasureTime = ulTime
LoopStoreMeasureTime ==
  /\ pc = "L210"
  /\ pc' = "L228"
  /\ ulMeasureTime' = ulTime
  /\ sinceMeasure' = ToU32(0)
  /\ cycleLog' = Append(cycleLog, "ulMeasureTime")
  /\ UNCHANGED <<bRunServer, ioVars, storeVars, ulTime, handlerVars,
                 nCycle, gen, acq, clockVars>>

LoopLedOffForgotten ==
  /\ pc = "L228"
  /\ pc' = "L231"
  /\ cycleLog' = Append(cycleLog, "ledOff")
  /\ UNCHANGED <<bRunServer, ioVars, storeVars, schedVars, handlerVars,
                 ghostVars, clockVars>>

\* digitalWrite(LED_BUILTIN, LED_OFF)
LoopLedOff ==
  /\ pc = "L228"
  /\ pc' = "L231"
  /\ ledPin' = LED_OFF
  /\ cycleLog' = Append(cycleLog, "ledOff")
  /\ UNCHANGED <<bRunServer, tickerMs, routesOn, serverOn, storeVars,
                 schedVars, handlerVars, ghostVars, clockVars>>

\* delayMicroseconds(100), then loop() is called again
LoopDelay ==
  /\ pc = "L231"
  /\ pc' = "L193"
  /\ UNCHANGED <<bRunServer, ioVars, storeVars, schedVars, cycleLog, handlerVars,
                 ghostVars, clockVars>>

Loop ==
  \/ LoopReadMillis \/ LoopTestDue \/ LoopLedOn \/ LoopNtpUpdate
  \/ LoopStoreTime \/ LoopReadTemperature \/ LoopReadHumidity
  \/ LoopHeatIndex \/ LoopSoundSpeed \/ LoopStoreMeasureTime \/ LoopLedOff
  \/ LoopDelay

\* ------------------------------------------------------- the HTTP handlers
Placeholders == {"TEMPERATURE", "HUMIDITY", "MEASURETIME", "REFRESHTIME"}

\* what a route produces: "/" fills the template through processOutput
RouteTodo(route) ==
  CASE route = "/" -> Placeholders
    [] route = "/temperature" -> {"TEMPERATURE"}
    [] route = "/humidity" -> {"HUMIDITY"}
    [] route = "/measuretime" -> {"MEASURETIME"}
    [] route = "/refreshtime" -> {"REFRESHTIME"}

Routes == {"/", "/temperature", "/humidity", "/measuretime", "/refreshtime"}

\* a GET request arrives for a registered route
HandlerStart ==
  /\ serverOn /\ routesOn
  /\ hpc = "idle"
  /\ nReqs < MaxRequests
  /\ \E route \in Routes :
       /\ hroute' = route
       /\ htodo' = RouteTodo(route)
  /\ hpc' = "run"
  /\ nReqs' = nReqs + 1
  /\ resp' = <<>> /\ respGen' = <<>>
  /\ UNCHANGED <<pc, bRunServer, ioVars, storeVars, schedVars, cycleLog,
                 ghostVars, clockVars>>

\* outputTemperature(): if (isnan(fTmp)) return "N/A";
OutputTemperatureTest ==
  /\ hpc = "run"
  /\ "TEMPERATURE" \in htodo
  /\ htodo' = htodo \ {"TEMPERATURE"}
  /\ IF isnan(fTmp)
     THEN /\ resp' = resp @@ ("TEMPERATURE" :> NA)
          /\ respGen' = respGen @@ ("TEMPERATURE" :> gen["tmp"])
          /\ hpc' = "run"
     ELSE /\ hpc' = "strT"
          /\ UNCHANGED <<resp, respGen>>
  /\ UNCHANGED <<pc, bRunServer, ioVars, storeVars, schedVars, cycleLog, hroute,
                 nReqs, ghostVars, clockVars>>

\* outputTemperature(): else return String(fTmp);
OutputTemperatureString ==
  /\ hpc = "strT"
  /\ resp' = resp @@ ("TEMPERATURE" :> FloatString(fTmp))
  /\ respGen' = respGen @@ ("TEMPERATURE" :> gen["tmp"])
  /\ hpc' = "run"
  /\ UNCHANGED <<pc, bRunServer, ioVars, storeVars, schedVars, cycleLog, hroute,
                 htodo, nReqs, ghostVars, clockVars>>

\* outputHumidity(): if (isnan(fHum)) return "N/A";
OutputHumidityTest ==
  /\ hpc = "run"
  /\ "HUMIDITY" \in htodo
  /\ htodo' = htodo \ {"HUMIDITY"}
  /\ IF isnan(fHum)
     THEN /\ resp' = resp @@ ("HUMIDITY" :> NA)
          /\ respGen' = respGen @@ ("HUMIDITY" :> gen["hum"])
          /\ hpc' = "run"
     ELSE /\ hpc' = "strH"
          /\ UNCHANGED <<resp, respGen>>
  /\ UNCHANGED <<pc, bRunServer, ioVars, storeVars, schedVars, cycleLog, hroute,
                 nReqs, ghostVars, clockVars>>

\* outputHumidity(): else return String(fHum);
OutputHumidityString ==
  /\ hpc = "strH"
  /\ resp' = resp @@ ("HUMIDITY" :> FloatString(fHum))
  /\ respGen' = respGen @@ ("HUMIDITY" :> gen["hum"])
  /\ hpc' = "run"
  /\ UNCHANGED <<pc, bRunServer, ioVars, storeVars, schedVars, cycleLog, hroute,
                 htodo, nReqs, ghostVars, clockVars>>

\* outputMeasureTime(): return sMeasureTime;
OutputMeasureTime ==
  /\ hpc = "run"
  /\ "MEASURETIME" \in htodo
  /\ htodo' = htodo \ {"MEASURETIME"}
  /\ resp' = resp @@ ("MEASURETIME" :> sMeasureTime)
  /\ respGen' = respGen @@ ("MEASURETIME" :> gen["mt"])
  /\ UNCHANGED <<pc, bRunServer, ioVars, storeVars, schedVars, cycleLog, hpc,
                 hroute, nReqs, ghostVars, clockVars>>

\* outputCurrentTime(): return clientNTP.getFormattedTime();
OutputCurrentTime ==
  /\ hpc = "run"
  /\ "REFRESHTIME" \in htodo
  /\ htodo' = htodo \ {"REFRESHTIME"}
  /\ \E ts \in FormattedTimes : resp' = resp @@ ("REFRESHTIME" :> ts)
  /\ UNCHANGED <<pc, bRunServer, ioVars, storeVars, schedVars, cycleLog, hpc,
                 hroute, respGen, nReqs, ghostVars, clockVars>>

\* request->send_P(200, ...): the response is complete
HandlerSend ==
  /\ hpc = "run"
  /\ htodo = {}
  /\ hpc' = "sent"
  /\ UNCHANGED <<pc, bRunServer, ioVars, storeVars, schedVars, cycleLog, hroute,
                 htodo, resp, respGen, nReqs, ghostVars, clockVars>>

\* the handler returns; the task waits for the next request
HandlerReturn ==
  /\ hpc = "sent"
  /\ hpc' = "idle"
  /\ hroute' = "" /\ resp' = <<>> /\ respGen' = <<>>
  /\ UNCHANGED <<pc, bRunServer, ioVars, storeVars, schedVars, cycleLog, htodo,
                 nReqs, ghostVars, clockVars>>

Handler ==
  \/ HandlerStart \/ OutputTemperatureTest \/ OutputTemperatureString
  \/ OutputHumidityTest \/ OutputHumidityString \/ OutputMeasureTime
  \/ OutputCurrentTime \/ HandlerSend \/ HandlerReturn

\* ------------------------------------------------------------ the LED ticker
\* digitalWrite(STATUS_LED_PIN, !digitalRead(STATUS_LED_PIN))
tickLED ==
  /\ tickerMs # 0
  /\ ledPin' = IF ledPin = LED_ON THEN LED_OFF ELSE LED_ON
  /\ UNCHANGED <<pc, bRunServer, tickerMs, routesOn, serverOn, storeVars,
                 schedVars, cycleLog, handlerVars, ghostVars, clockVars>>

\* ------------------------------------------------------------------ the clock
\* The uptime counter advances, modulo 2^32.  Only LoopReadMillis reads the
\* counter, so the time that passes anywhere between two reads is accounted
\* for just before the read.
Tick ==
  /\ pc = "L193"
  /\ nTicks < MaxTicks
  /\ \E d \in Deltas :
       /\ millisNow' = Add32(millisNow, d)
       /\ sincePoll' = AddBig(sincePoll, d)
  /\ nTicks' = nTicks + 1
  /\ UNCHANGED <<pc, bRunServer, ioVars, storeVars, schedVars, cycleLog,
                 handlerVars, ghostVars>>

Next == Setup \/ Loop \/ Handler \/ tickLED \/ Tick

Spec == Init /\ [][Next]_vars


\* ------------------------------------------------- the loop that never stops
\* The state in which setup() returns after a successful connect.
LiveInit ==
  /\ pc = "L193"
  /\ bRunServer = TRUE
  /\ ledPin = LED_OFF
  /\ tickerMs = 0
  /\ routesOn = TRUE
  /\ serverOn = TRUE
  /\ fTmp = 0 /\ fHum = 0 /\ fHtIdx = 0 /\ fSndSpd = 0
  /\ sMeasureTime = ""
  /\ ulTime = ToU32(0)
  /\ ulMeasureTime = ToU32(0)
  /\ millisNow = ToU32(0)
  /\ cycleLog = <<>>
  /\ hpc = "idle" /\ hroute = "" /\ htodo = {}
  /\ resp = <<>> /\ respGen = <<>>
  /\ nCycle = 0
  /\ gen = [f \in Fields |-> 0]
  /\ acq = [t |-> 0, h |-> 0, ts |-> ""]
  /\ sinceMeasure = ToU32(0)
  /\ sincePoll = ToU32(0)
  /\ nTicks = 0 /\ nReqs = 0

\* 2^30 and 2^31 ms: the counter wraps after four, or two, advances
LiveDeltas == { <<16384, 0>>, <<32768, 0>> }

\* The uptime counter advances without end; loop() reads it at least once
\* per advance, so at most 2^31 ms pass between two reads.
LiveTick ==
  /\ sincePoll = ToU32(0)
  /\ \E d \in LiveDeltas :
       /\ millisNow' = Add32(millisNow, d)
       /\ sincePoll' = AddBig(sincePoll, d)
  /\ UNCHANGED <<pc, bRunServer, ioVars, storeVars, schedVars, cycleLog,
                 handlerVars, ghostVars, nTicks>>

\* The handlers write nothing that loop() reads and are left out.
LiveNext == Loop \/ LiveTick

\* loop() is called again and again by the loop task, and time passes
LiveSpec ==
  /\ LiveInit /\ [][LiveNext]_vars
  /\ WF_vars(Loop) /\ WF_vars(LiveTick)

\* ================================================================= properties
IdlePcs == {"L193", "L195", "L231"}

\* a cycle has run to its end and the next one has not begun
CycleCompleted == nCycle >= 1 /\ pc \in IdlePcs

StoredFields == {"TEMPERATURE", "HUMIDITY", "MEASURETIME"}

\* ------------------------------------------------------------------------ C1
\* C1 (as claimed): the stored fields a completed response shows were all
\* written by the same acquisition (acquisition 0 is the startup sample).
C1_NoTornResponse ==
  hpc = "sent" =>
    \A p, q \in DOMAIN respGen \cap StoredFields : respGen[p] = respGen[q]

\* ------------------------------------------------------------------------ C2
\* C2 (as claimed): a response completed before the first acquisition cycle
\* finds not-a-number in the four stored numbers and an empty timestamp, and
\* shows "N/A" for temperature and humidity and "" for the measure time.
C2_InitialSampleIsNaN ==
  (hpc = "sent" /\ nCycle = 0) =>
    /\ isnan(fTmp) /\ isnan(fHum) /\ isnan(fHtIdx) /\ isnan(fSndSpd)
    /\ sMeasureTime = ""
    /\ ("TEMPERATURE" \in DOMAIN resp => resp["TEMPERATURE"] = NA)
    /\ ("HUMIDITY" \in DOMAIN resp => resp["HUMIDITY"] = NA)
    /\ ("MEASURETIME" \in DOMAIN resp => resp["MEASURETIME"] = "")

\* ------------------------------------------------------------------------ C3
\* ulTime is at most DHT_MEASURETIME ms after ulMeasureTime on the 32-bit
\* counter: some e <= DHT_MEASURETIME has ulMeasureTime + e = ulTime.  Such an
\* e is below 2^16, so it is the difference of the low halves.
WithinInterval ==
  LET e == (ulTime[2] - ulMeasureTime[2]) % Limb
  IN  e <= DHT_MEASURETIME /\ Add32(ulMeasureTime, ToU32(e)) = ulTime

C4_NoAcquisitionWithoutConnection ==
  [][ /\ (pc # "S135" => bRunServer' = bRunServer)
      /\ ((pc \notin SetupPcs /\ ~bRunServer) => pc' \notin CyclePcs) ]_vars

\* the test of line 195 has skipped the cycle although the elapsed value
\* exceeds DHT_MEASURETIME, because bRunServer is false
C4_Witness ==
  /\ ~bRunServer /\ pc = "L231"
  /\ ~WithinInterval

\* ------------------------------------------------------------------------ C5
BigGt(a, n) == a[1] > n \div Limb \/ (a[1] = n \div Limb /\ a[2] > n % Limb)

\* C5: when fewer than 2^32 ms really passed between the poll that produced
\* ulMeasureTime and the poll that produced ulTime, ulTime - ulMeasureTime is
\* that number of ms, and (bRunServer true) the cycle is entered exactly when
\* that number exceeds DHT_MEASURETIME, also when the counter wrapped.
C5_ElapsedIsRealElapsed ==
  (pc \in {"L195", "L198", "L231"} /\ sinceMeasure[1] < Limb) =>
    /\ Sub32(ulTime, ulMeasureTime) = sinceMeasure
    /\ bRunServer =>
         /\ (pc = "L198" => BigGt(sinceMeasure, DHT_MEASURETIME))
         /\ (pc = "L231" => ~BigGt(sinceMeasure, DHT_MEASURETIME))

\* the counter wrapped between the two polls and the cycle is entered
C5_Witness ==
  /\ pc = "L198" /\ sinceMeasure[1] < Limb
  /\ Gt32(ulMeasureTime, ulTime)

\* ------------------------------------------------------------------------ C6
MaxMinus5 == <<65535, 65530>>

\* C6 (as claimed): with ulMeasureTime = MAX - 5 and ulTime = 10 the elapsed
\* value is 15 and the cycle is not entered.
C6_ElapsedIs15 ==
  (ulMeasureTime = MaxMinus5 /\ ulTime = ToU32(10)) =>
    /\ Sub32(ulTime, ulMeasureTime) = ToU32(15)
    /\ pc \notin CyclePcs

\* C6 (amended): with ulMeasureTime = MAX - 5 and ulTime = 10 the elapsed
\* value is 16 and the cycle is not entered.
C6_ElapsedIs16 ==
  (ulMeasureTime = MaxMinus5 /\ ulTime = ToU32(10)) =>
    /\ Sub32(ulTime, ulMeasureTime) = ToU32(16)
    /\ pc \notin CyclePcs

\* the test of line 195 has run on these two values
C6_Witness ==
  /\ bRunServer /\ pc = "L231"
  /\ ulMeasureTime = MaxMinus5 /\ ulTime = ToU32(10)

\* ------------------------------------------------------------------------ C7
\* C7: from the end of a cycle to the start of the next the stored fields are
\* what the sensor and the clock returned in that cycle and the values derived
\* from them; steps of the handlers, of the ticker and of loop() outside the
\* cycle change no stored field.
C7_RoundTrip ==
  /\ [](CycleCompleted =>
          /\ fTmp = acq.t /\ fHum = acq.h /\ sMeasureTime = acq.ts
          /\ fHtIdx = computeHeatIndex(acq.t, acq.h)
          /\ fSndSpd = SoundSpeed(acq.t, acq.h))
  /\ [][ (handlerVars' # handlerVars \/ ledPin' # ledPin \/ pc \notin CyclePcs)
           => storeVars' = storeVars ]_vars

\* a request is answered after a cycle with two valid readings
C7_Witness ==
  /\ CycleCompleted /\ hpc = "sent" /\ hroute = "/"
  /\ acq.t = 225 /\ acq.h = 550
  /\ respGen["TEMPERATURE"] = nCycle

\* ------------------------------------------------------------------------ C8
\* C8 (as claimed): in every state the stored heat index and sound speed are
\* the values derived from the stored temperature and humidity.
C8_DerivedConsistent ==
  /\ fHtIdx = computeHeatIndex(fTmp, fHum)
  /\ fSndSpd = SoundSpeed(fTmp, fHum)

\* ------------------------------------------------------------------------ C9
\* C9: after a cycle in which the temperature read or the humidity read
\* returned not-a-number, the stored heat index and sound speed are both
\* not-a-number.
C9_NaNPropagates ==
  (CycleCompleted /\ (isnan(acq.t) \/ isnan(acq.h))) =>
    isnan(fHtIdx) /\ isnan(fSndSpd)

\* a cycle ended in which only the humidity read failed
C9_Witness ==
  /\ CycleCompleted /\ ~isnan(acq.t) /\ isnan(acq.h)
  /\ isnan(fSndSpd)

\* ----------------------------------------------------------------------- C10
\* C10: after a cycle in which exactly one of the two reads failed, the field
\* of the failed read is not-a-number and the other field is the value the
\* sensor returned for it in that cycle.
C10_IndependentFailure ==
  CycleCompleted =>
    /\ (isnan(acq.t) /\ ~isnan(acq.h)) =>
         (isnan(fTmp) /\ fHum = acq.h /\ gen["hum"] = nCycle)
    /\ (~isnan(acq.t) /\ isnan(acq.h)) =>
         (isnan(fHum) /\ fTmp = acq.t /\ gen["tmp"] = nCycle)

\* a cycle ended in which only the temperature read failed
C10_Witness ==
  /\ CycleCompleted /\ isnan(acq.t) /\ ~isnan(acq.h)
  /\ fHum = 550

\* ----------------------------------------------------------------------- C11
\* number of times statement e occurs in the log
Count(log, e) == Cardinality({i \in 1..Len(log) : log[i] = e})

\* C11: a completed cycle has read the temperature once and the humidity
\* once, a read that returned not-a-number left not-a-number in its field,
\* and a stored not-a-number is replaced only by the read of a later cycle.
C11_FailedReadStaysNaN ==
  /\ [](CycleCompleted =>
          /\ Count(cycleLog, "readTemperature") = 1
          /\ Count(cycleLog, "readHumidity") = 1
          /\ (isnan(acq.t) => isnan(fTmp))
          /\ (isnan(acq.h) => isnan(fHum)))
  /\ [][ /\ (isnan(fTmp) /\ ~isnan(fTmp')) => pc = "L203"
         /\ (isnan(fHum) /\ ~isnan(fHum')) => pc = "L204" ]_vars

\* the second cycle failed to read a temperature that a response, produced
\* from the first cycle, shows as 22.50
C11_Witness ==
  /\ CycleCompleted /\ nCycle = 2 /\ isnan(acq.t) /\ isnan(fTmp)
  /\ hpc = "sent" /\ "TEMPERATURE" \in DOMAIN resp
  /\ resp["TEMPERATURE"] = "22.50" /\ respGen["TEMPERATURE"] = 1

\* ----------------------------------------------------------------------- C12
\* C12 (as claimed): whenever a handler produces the text for TEMPERATURE it
\* is "N/A" if the stored temperature is not-a-number at that moment and the
\* decimal text of the stored temperature otherwise; the same for HUMIDITY.
\* A response shows no number for a field of which no reading is available:
\* a text taken from the startup sample is "N/A".
C12_TextMatchesStored ==
  /\ [][ /\ ("TEMPERATURE" \notin DOMAIN resp /\ "TEMPERATURE" \in DOMAIN resp')
              => resp'["TEMPERATURE"] =
                   (IF isnan(fTmp) THEN NA ELSE FloatString(fTmp))
         /\ ("HUMIDITY" \notin DOMAIN resp /\ "HUMIDITY" \in DOMAIN resp')
              => resp'["HUMIDITY"] =
                   (IF isnan(fHum) THEN NA ELSE FloatString(fHum)) ]_vars
  /\ [](\A p \in {"TEMPERATURE", "HUMIDITY"} :
          (p \in DOMAIN resp /\ respGen[p] = 0) => resp[p] = NA)

\* ----------------------------------------------------------------------- C13
NtpCalls(log) == SelectSeq(log, LAMBDA e : e \in {"update", "getFormattedTime"})

\* C13: a completed cycle has called clientNTP.update() once and then
\* clientNTP.getFormattedTime() once, and the stored measure time is what
\* that call returned.
C13_UpdateThenFormattedTimeOnce ==
  CycleCompleted =>
    /\ NtpCalls(cycleLog) = <<"update", "getFormattedTime">>
    /\ sMeasureTime = acq.ts
    /\ gen["mt"] = nCycle

\* a second cycle ended with the later of the two clock readings
C13_Witness ==
  /\ CycleCompleted /\ nCycle = 2
  /\ sMeasureTime = "12:01:02"

\* ----------------------------------------------------------------------- C14
\* C14 (as claimed): once setup() has switched the LED on after the connect
\* succeeded, the LED is on until the first cycle has run; afterwards it is on
\* inside a cycle and off outside.
C14_LedOnUntilFirstMeasurement ==
  (bRunServer /\ pc \notin {"S97", "S135", "S139", "S147", "S150"}) =>
    /\ nCycle = 0 => ledPin = LED_ON
    /\ (nCycle >= 1 /\ pc \in IdlePcs) => ledPin = LED_OFF
    /\ pc \in (CyclePcs \ {"L198"}) => ledPin = LED_ON

\* ----------------------------------------------------------------------- C15
\* position of statement e in the log, 0 when it is absent
Pos(log, e) ==
  IF \E i \in 1..Len(log) : log[i] = e
  THEN CHOOSE i \in 1..Len(log) : log[i] = e
  ELSE 0

CycleStatements ==
  <<"ledOn", "update", "getFormattedTime", "readTemperature", "readHumidity",
    "computeHeatIndex", "soundSpeed", "ulMeasureTime", "ledOff">>

C18_TickerOffWhenAcquiring ==
  /\ pc \in CyclePcs => tickerMs = 0
  /\ pc \notin SetupPcs => (bRunServer <=> tickerMs = 0)

\* a cycle is about to switch the LED off and no ticker is attached
C18_Witness ==
  /\ pc = "L228" /\ tickerMs = 0 /\ ledPin = LED_ON

\* ----------------------------------------------------------------------- C19
\* C19: once setup() is over the routes are registered and the server is
\* started exactly when bRunServer is true; with bRunServer false no request
\* is ever served.
C19_ServerIffConnected ==
  /\ pc \notin SetupPcs =>
       /\ routesOn <=> bRunServer
       /\ serverOn <=> bRunServer
  /\ ~serverOn => (hpc = "idle" /\ nReqs = 0)
  /\ (pc \notin SetupPcs /\ ~bRunServer) => (hpc = "idle" /\ nReqs = 0)

\* a request is answered before the first cycle
C19_Witness ==
  /\ bRunServer /\ serverOn /\ hpc = "sent"
  /\ nCycle = 0 /\ pc \in IdlePcs

\* ----------------------------------------------------------------------- C17
\* C17: with bRunServer true, loop() running and the counter advancing, a
\* cycle is entered again and again, and every cycle that is entered reaches
\* the delay statement at the end of its iteration.
C17_CyclesRecurAndComplete ==
  /\ []<>(pc = "L198")
  /\ [](pc \in CyclePcs => <>(pc = "L231"))

\* a cycle is entered after the counter wrapped since the previous cycle
C17_Witness ==
  /\ pc = "L198" /\ nCycle >= 1 /\ bRunServer
  /\ Gt32(ulMeasureTime, ulTime)

====
